---- MODULE Spec2Model ----
(***************************************************************************)
(* A model of the B-tree of mk_bt.h: the node heap, bt_insert with its     *)
(* overflow-then-split recursion, bt_lookup, and the explicit-stack        *)
(* in-order iterator.                                                      *)
(***************************************************************************)
EXTENDS Integers, Sequences, FiniteSets, TLC

\* ---------------------------------------------------------------- bounds
\* Keys are 1..MaxKey and values 1..MaxVal.
MaxKey == 11
MaxVal == 2
\* A caller that inserts new keys in ascending or in descending order uses
\* all the keys; a caller that inserts in any order uses the keys 1..MaxAny.
MaxAny == 5

\* The worked example: the keys a caller inserts, in this order, into a tree
\* of the default branching factor.
Example == <<10, 20, 5, 6, 12, 30, 7, 17>>

\* ------------------------------------------------------------- constants
\* The default branching factor (#define BT_FACTOR 2).
BT_FACTOR == 2
\* The iterator's stack size (#define BT_ITER_STACK_SIZE 32), and a small
\* one that a build sets in its place.
BT_ITER_STACK_SIZE == 32
SmallStack == 2
\* The branching factors the header is instantiated with: the default, and
\* the smallest one its comment on BT_ITER_STACK_SIZE speaks of.
Factors == {BT_FACTOR - 1, BT_FACTOR}

NULL == 0
Keys == 1..MaxKey
ExampleKeys == {Example[i] : i \in DOMAIN Example}
AllKeys == Keys \cup ExampleKeys
Vals == 1..MaxVal
\* BT_ELEM: an element is a key with a value; only the key is compared.
Elem(k, v) == [key |-> k, val |-> v]
Elems == {Elem(k, v) : k \in AllKeys, v \in Vals}
\* The element of a calloc'ed slot (all bytes zero).
ZeroElem == Elem(0, 0)
\* What the caller's *prev holds when bt_insert never wrote it.
Unwritten == Elem(-1, -1)

VARIABLES
  factor,    \* BT_FACTOR of this instantiation
  order,     \* the caller's insertion order: "asc", "desc", "any", "example"
  root,      \* bt.root: a node id, or NULL
  size,      \* bt.size
  nodes,     \* the heap: nodes[id] is the struct bnode allocated id-th
  stack_size,\* BT_ITER_STACK_SIZE of this instantiation
  iter,      \* the caller's struct bt_iter_dfs, top = 0 when it has none
  last,      \* the most recent call: its arguments and what it returned
  live,      \* history: per element, times handed to bt_insert less times released
  model,     \* history: the abstract map key -> value (0: never inserted)
  yielded    \* history: the elements the iterator returned since bt_iter_dfs_mk

vars == <<factor, order, stack_size, root, size, nodes, iter, last, live, model,
          yielded>>

\* ------------------------------------------------------------ struct bnode
ElemIdx(F) == 0..(2 * F)
ChildIdx(F) == 0..(2 * F + 1)
\* calloc(1, sizeof(struct bnode))
ZeroNode(F) ==
  [n |-> 0,
   elems |-> [i \in ElemIdx(F) |-> ZeroElem],
   children |-> [i \in ChildIdx(F) |-> NULL]]

\* calloc: the new node gets the next id of the heap.
calloc(h, F) == Append(h, ZeroNode(F))

\* ------------------------------------------------------------ comparison
BT_LESS(a, b) == a.key < b.key

bt_default_cmp(a, b) ==
  IF BT_LESS(b, a) THEN 1
  ELSE IF BT_LESS(a, b) THEN -1
  ELSE 0

\* ------------------------------------------------------------ bt_node_free
\* What a teardown did: the elements BT_ELEM_FREE was applied to and the
\* nodes given to free(), each in order.
NoneFreed == [hooked |-> <<>>, freed |-> <<>>]
Freed(a, b) == [hooked |-> a.hooked \o b.hooked, freed |-> a.freed \o b.freed]

RECURSIVE bt_node_free(_, _)
\* for (i = ...; i < node->n; i++) { BT_ELEM_FREE(elems[i]); bt_node_free(children[i]); }
RECURSIVE free_loop(_, _, _)
free_loop(h, node, i) ==
  IF i >= h[node].n THEN NoneFreed
  ELSE Freed([hooked |-> <<h[node].elems[i]>>, freed |-> <<>>],
             Freed(bt_node_free(h, h[node].children[i]), free_loop(h, node, i + 1)))

\* Mutant: the child after the last element is not visited.
bt_node_free_skiplast(h, node) ==
  IF node = NULL THEN NoneFreed
  ELSE Freed(free_loop(h, node, 0), [hooked |-> <<>>, freed |-> <<node>>])

bt_node_free(h, node) ==
  IF node = NULL THEN NoneFreed
  ELSE Freed(free_loop(h, node, 0),
             Freed(bt_node_free(h, h[node].children[h[node].n]),
                   [hooked |-> <<>>, freed |-> <<node>>]))

bt_free(h, rt) == bt_node_free(h, rt)

\* ------------------------------------------------------- bt_node_bsearch
\* One run of the do-while loop from (left, right): the values of cmp, mid,
\* left and right when the loop is left.
\* Mutant: the upper bound is moved to mid - 1, as for a closed interval.
RECURSIVE bsearch_loop_midminus(_, _, _, _)
bsearch_loop_midminus(node, elem, left, right) ==
  LET mid == left + (right - left) \div 2
      cmp == bt_default_cmp(elem, node.elems[mid])
      l2 == IF cmp > 0 THEN mid + 1 ELSE left
      r2 == IF cmp < 0 THEN mid - 1 ELSE right
  IN IF cmp /= 0 /\ l2 < r2
       THEN bsearch_loop_midminus(node, elem, l2, r2)
       ELSE [cmp |-> cmp, mid |-> mid, left |-> l2, right |-> r2]

RECURSIVE bsearch_loop(_, _, _, _)
bsearch_loop(node, elem, left, right) ==
  LET mid == left + (right - left) \div 2
      cmp == bt_default_cmp(elem, node.elems[mid])
      l2 == IF cmp > 0 THEN mid + 1 ELSE left
      r2 == IF cmp < 0 THEN mid ELSE right
  IN IF cmp /= 0 /\ l2 < r2
       THEN bsearch_loop(node, elem, l2, r2)
       ELSE [cmp |-> cmp, mid |-> mid, left |-> l2, right |-> r2]

\* Mutant: the insertion point is encoded as -left, without the - 1.
bt_node_bsearch_nominus(node, elem) ==
  LET r == bsearch_loop(node, elem, 0, node.n)
  IN IF r.cmp = 0 THEN r.mid ELSE -r.left

bt_node_bsearch(node, elem) ==
  LET r == bsearch_loop(node, elem, 0, node.n)
  IN IF r.cmp = 0 THEN r.mid ELSE (-r.left) - 1

\* A call bt_node_bsearch(node, elem) as the record of a call keeps it: the
\* node, its n on entry, and cmp, left and right where the assertion
\* left == right stands.
Probe(h, node, elem) ==
  LET r == bsearch_loop(h[node], elem, 0, h[node].n)
  IN [node |-> node, n |-> h[node].n, cmp |-> r.cmp, left |-> r.left,
      right |-> r.right]

\* --------------------------------------------------------- bt_lookup_node
\* A BT_ELEM* is the node and the slot it points into, or NULL.
ElemPtr(nd, i) == [node |-> nd, idx |-> i]
NullPtr == [node |-> NULL, idx |-> 0]
Deref(h, p) == h[p.node].elems[p.idx]

\* The while loop from curr: the pointer returned, the last *node written
\* (visited on entry), and the calls of bt_node_bsearch made: their number
\* and, in order, their records.
RECURSIVE lookup_loop(_, _, _, _)
lookup_loop(h, curr, elem, visited) ==
  IF curr = NULL
    THEN [ret |-> NullPtr, node |-> visited, searches |-> 0, probes |-> <<>>]
  ELSE LET idx == bt_node_bsearch(h[curr], elem)
       IN IF idx >= 0
            THEN [ret |-> ElemPtr(curr, idx), node |-> curr, searches |-> 1,
                  probes |-> <<Probe(h, curr, elem)>>]
            ELSE LET r == lookup_loop(h, h[curr].children[(-idx) - 1], elem, curr)
                 IN [r EXCEPT !.searches = @ + 1,
                              !.probes = <<Probe(h, curr, elem)>> \o @]

\* Mutant: the descent takes the child at -idx, one to the right of the
\* decoded insertion point.
RECURSIVE lookup_loop_wrongchild(_, _, _, _)
lookup_loop_wrongchild(h, curr, elem, visited) ==
  IF curr = NULL
    THEN [ret |-> NullPtr, node |-> visited, searches |-> 0, probes |-> <<>>]
  ELSE LET idx == bt_node_bsearch(h[curr], elem)
       IN IF idx >= 0
            THEN [ret |-> ElemPtr(curr, idx), node |-> curr, searches |-> 1,
                  probes |-> <<Probe(h, curr, elem)>>]
            ELSE LET r == lookup_loop_wrongchild(h, h[curr].children[-idx], elem, curr)
                 IN [r EXCEPT !.searches = @ + 1,
                              !.probes = <<Probe(h, curr, elem)>> \o @]

bt_lookup_node_wrongchild(h, rt, elem) == lookup_loop_wrongchild(h, rt, elem, NULL)

bt_lookup_node(h, rt, elem) == lookup_loop(h, rt, elem, NULL)

bt_lookup(h, rt, elem) == bt_lookup_node(h, rt, elem).ret

\* ----------------------------------------------------------- bt_split_node
\* Mutant: the children right of the child are not moved.
split_shift_children_none(p, idx) == p

\* memmove(rchild + 1, rchild, (parent->n - idx) * SIZEOF_PTR)
split_shift_children(p, idx) ==
  [p EXCEPT !.children =
     [j \in DOMAIN p.children |->
        IF j >= idx + 2 /\ j <= p.n + 1 THEN p.children[j - 1]
        ELSE p.children[j]]]

\* Mutant: the sibling is never given the upper half of the children.
split_sibling_nochildren(child, F) ==
  [n |-> F,
   elems |-> [j \in ElemIdx(F) |->
                IF j < F THEN child.elems[j + F + 1] ELSE ZeroElem],
   children |-> [j \in ChildIdx(F) |-> NULL]]

\* Mutant: the elements are copied from the median on, one slot early.
split_sibling_frommedian(child, F) ==
  [n |-> F,
   elems |-> [j \in ElemIdx(F) |->
                IF j < F THEN child.elems[j + F] ELSE ZeroElem],
   children |-> [j \in ChildIdx(F) |->
                   IF child.children[0] /= NULL /\ j <= F
                     THEN child.children[j + F + 1] ELSE NULL]]

\* The sibling: the upper half of the child's elements and, when the child
\* is not a leaf, the upper half of its children.
split_sibling(child, F) ==
  [n |-> F,
   elems |-> [j \in ElemIdx(F) |->
                IF j < F THEN child.elems[j + F + 1] ELSE ZeroElem],
   children |-> [j \in ChildIdx(F) |->
                   IF child.children[0] /= NULL /\ j <= F
                     THEN child.children[j + F + 1] ELSE NULL]]

\* Mutant: the element promoted is the first of the upper half, not the
\* median.
bt_split_node_offbyone(h, parent, idx, F) ==
  LET child == h[parent].children[idx]
      sib == Len(h) + 1
      p1 == split_shift_children(h[parent], idx)
      p2 == [p1 EXCEPT !.children[idx + 1] = sib]
      h1 == [calloc(h, F) EXCEPT ![parent] = p2]
      h2 == [h1 EXCEPT ![sib] = split_sibling(h[child], F)]
      h3 == [h2 EXCEPT ![child].n = F]
  IN [h |-> h3, promoted |-> h[child].elems[F + 1]]

\* The heap after the split, and the promoted element.
bt_split_node(h, parent, idx, F) ==
  LET child == h[parent].children[idx]
      sib == Len(h) + 1
      p1 == split_shift_children(h[parent], idx)
      p2 == [p1 EXCEPT !.children[idx + 1] = sib]
      h1 == [calloc(h, F) EXCEPT ![parent] = p2]
      h2 == [h1 EXCEPT ![sib] = split_sibling(h[child], F)]
      h3 == [h2 EXCEPT ![child].n = F]
  IN [h |-> h3, promoted |-> h[child].elems[F]]

\* ---------------------------------------------------------- bt_node_insert
\* Mutant: the element found is not overwritten: the new one is inserted
\* before it, as if the key were absent.
node_replace_reinsert(h, node, idx, elem) ==
  LET nd == h[node]
  IN [h EXCEPT ![node] =
        [nd EXCEPT
           !.elems = [j \in DOMAIN nd.elems |->
                        IF j = idx THEN elem
                        ELSE IF j > idx /\ j <= nd.n THEN nd.elems[j - 1]
                        ELSE nd.elems[j]],
           !.n = nd.n + 1]]

\* Mutant: the element found is kept, the new one dropped.
node_replace_keep(h, node, idx, elem) == h

\* if (idx >= 0): the element found is overwritten in place.
node_replace(h, node, idx, elem) ==
  [h EXCEPT ![node].elems[idx] = elem]

\* Mutant: no memmove, the element at idx is overwritten.
node_shift_insert_noshift(h, node, idx, elem) ==
  [h EXCEPT ![node].elems[idx] = elem, ![node].n = h[node].n + 1]

\* memmove(p + 1, p, (node->n - idx) * sizeof(BT_ELEM)); *p = elem; node->n++
node_shift_insert(h, node, idx, elem) ==
  LET nd == h[node]
  IN [h EXCEPT ![node] =
        [nd EXCEPT
           !.elems = [j \in DOMAIN nd.elems |->
                        IF j = idx THEN elem
                        ELSE IF j > idx /\ j <= nd.n THEN nd.elems[j - 1]
                        ELSE nd.elems[j]],
           !.n = nd.n + 1]]

\* One store of an insertion, for the record of a call: what was done
\* ("replace", "insert", "split" or "root"), in which node and at which
\* index, the element stored or promoted, and the heap before and after.
Step(kind, node, idx, elem, before, after) ==
  [step |-> kind, node |-> node, idx |-> idx, elem |-> elem,
   before |-> before, after |-> after]

\* The heap afterwards, the value returned, what *prev holds (pv on entry;
\* wp: the caller passed a non-NULL prev), the elements BT_ELEM_FREE was
\* applied to, the stores made, in order, and the calls of bt_node_bsearch.
RECURSIVE bt_node_insert(_, _, _, _, _, _)
bt_node_insert(h, node, elem, wp, pv, F) ==
  LET idx == bt_node_bsearch(h[node], elem)
      pr == <<Probe(h, node, elem)>>
  IN IF idx >= 0
       THEN LET h1 == node_replace(h, node, idx, elem)
            IN [h |-> h1,
                replaced |-> TRUE,
                prev |-> IF wp THEN h[node].elems[idx] ELSE pv,
                hooked |-> IF wp THEN <<>> ELSE <<h[node].elems[idx]>>,
                trace |-> <<Step("replace", node, idx, elem, h, h1)>>,
                probes |-> pr]
       ELSE
         LET i == (-idx) - 1
             child == h[node].children[i]
         IN IF child /= NULL
              THEN LET r == bt_node_insert(h, child, elem, wp, pv, F)
                   IN IF r.h[child].n <= 2 * F
                        THEN [r EXCEPT !.probes = pr \o @]
                        ELSE LET s == bt_split_node(r.h, node, i, F)
                                 h2 == node_shift_insert(s.h, node, i, s.promoted)
                             IN [h |-> h2,
                                 replaced |-> FALSE,
                                 prev |-> r.prev,
                                 hooked |-> r.hooked,
                                 trace |-> r.trace \o
                                   <<Step("split", node, i, s.promoted, r.h, s.h),
                                     Step("insert", node, i, s.promoted, s.h, h2)>>,
                                 probes |-> pr \o r.probes]
              ELSE LET h1 == node_shift_insert(h, node, i, elem)
                   IN [h |-> h1,
                       replaced |-> FALSE,
                       prev |-> pv,
                       hooked |-> <<>>,
                       trace |-> <<Step("insert", node, i, elem, h, h1)>>,
                       probes |-> pr]

\* --------------------------------------------------------------- bt_insert
\* Mutant: the new root takes the element being inserted, also over a root
\* that it splits.
insert_new_root_elem(h, rt, elem, F) ==
  LET nr == Len(h) + 1
      h1 == [calloc(h, F) EXCEPT ![nr].n = 1, ![nr].children[0] = rt]
  IN IF rt /= NULL
       THEN LET s == bt_split_node(h1, nr, 0, F)
                h2 == [s.h EXCEPT ![nr].elems[0] = elem]
            IN [h |-> h2, root |-> nr,
                trace |-> <<Step("split", nr, 0, s.promoted, h1, s.h),
                            Step("root", nr, 0, elem, s.h, h2)>>]
       ELSE LET h2 == [h1 EXCEPT ![nr].elems[0] = elem]
            IN [h |-> h2, root |-> nr,
                trace |-> <<Step("root", nr, 0, elem, h1, h2)>>]

\* Mutant: the first node of an empty tree is counted as holding one
\* element, which is never stored in it.
insert_new_root_unset(h, rt, elem, F) ==
  LET nr == Len(h) + 1
      h1 == [calloc(h, F) EXCEPT ![nr].n = 1, ![nr].children[0] = rt]
  IN IF rt /= NULL
       THEN LET s == bt_split_node(h1, nr, 0, F)
                h2 == [s.h EXCEPT ![nr].elems[0] = s.promoted]
            IN [h |-> h2, root |-> nr,
                trace |-> <<Step("split", nr, 0, s.promoted, h1, s.h),
                            Step("root", nr, 0, s.promoted, s.h, h2)>>]
       ELSE [h |-> h1, root |-> nr,
             trace |-> <<Step("root", nr, 0, elem, h1, h1)>>]

\* The new root of bt_insert: over the old root, which it splits, or the
\* first node of an empty tree; with the stores made.
insert_new_root(h, rt, elem, F) ==
  LET nr == Len(h) + 1
      h1 == [calloc(h, F) EXCEPT ![nr].n = 1, ![nr].children[0] = rt]
  IN IF rt /= NULL
       THEN LET s == bt_split_node(h1, nr, 0, F)
                h2 == [s.h EXCEPT ![nr].elems[0] = s.promoted]
            IN [h |-> h2, root |-> nr,
                trace |-> <<Step("split", nr, 0, s.promoted, h1, s.h),
                            Step("root", nr, 0, s.promoted, s.h, h2)>>]
       ELSE LET h2 == [h1 EXCEPT ![nr].elems[0] = elem]
            IN [h |-> h2, root |-> nr,
                trace |-> <<Step("root", nr, 0, elem, h1, h2)>>]

\* bool replaced = bt->root ? bt_node_insert(bt->root, elem, prev) : false
insert_at_root(h, rt, elem, wp, pv, F) ==
  IF rt /= NULL
    THEN bt_node_insert(h, rt, elem, wp, pv, F)
    ELSE [h |-> h, replaced |-> FALSE, prev |-> pv, hooked |-> <<>>, trace |-> <<>>,
          probes |-> <<>>]

\* Mutant: a new root is made for an empty tree only, never over a root
\* that overflowed.
bt_insert_nosplit(h, rt, elem, wp, pv, F) ==
  LET r == insert_at_root(h, rt, elem, wp, pv, F)
  IN IF rt = NULL
       THEN LET t == insert_new_root(r.h, rt, elem, F)
            IN [r EXCEPT !.h = t.h, !.trace = r.trace \o t.trace] @@ [root |-> t.root]
       ELSE r @@ [root |-> rt]

\* Mutant: the root is split one key late, when it holds more than
\* 2 * BT_FACTOR + 1.
bt_insert_lateroot(h, rt, elem, wp, pv, F) ==
  LET r == insert_at_root(h, rt, elem, wp, pv, F)
  IN IF rt = NULL \/ r.h[rt].n > 2 * F + 1
       THEN LET t == insert_new_root(r.h, rt, elem, F)
            IN [r EXCEPT !.h = t.h, !.trace = r.trace \o t.trace] @@ [root |-> t.root]
       ELSE r @@ [root |-> rt]

\* Mutant: the root is split one key early, when it holds 2 * BT_FACTOR.
bt_insert_earlyroot(h, rt, elem, wp, pv, F) ==
  LET r == insert_at_root(h, rt, elem, wp, pv, F)
  IN IF rt = NULL \/ r.h[rt].n >= 2 * F
       THEN LET t == insert_new_root(r.h, rt, elem, F)
            IN [r EXCEPT !.h = t.h, !.trace = r.trace \o t.trace] @@ [root |-> t.root]
       ELSE r @@ [root |-> rt]

\* The heap and the root afterwards, with what bt_node_insert gave.
bt_insert(h, rt, elem, wp, pv, F) ==
  LET r == insert_at_root(h, rt, elem, wp, pv, F)
  IN IF rt = NULL \/ r.h[rt].n > 2 * F
       THEN LET t == insert_new_root(r.h, rt, elem, F)
            IN [r EXCEPT !.h = t.h, !.trace = r.trace \o t.trace] @@ [root |-> t.root]
       ELSE r @@ [root |-> rt]

\* ---------------------------------------------------------- bt_iter_dfs_mk
Frame(i, nd) == [i |-> i, node |-> nd]
\* struct bt_iter_frame stack[BT_ITER_STACK_SIZE], for a stack size N.
StackIdx(N) == 0..(N - 1)

\* An iterator is top and stack, and with them `past`: the frames that
\* bt_iter_dfs_next stored behind the end of the stack array, by index.
bt_iter_dfs_mk(rt, N) ==
  [top |-> 1,
   stack |-> [j \in StackIdx(N) |-> IF j = 0 THEN Frame(0, rt) ELSE Frame(0, NULL)],
   past |-> <<>>]

\* The caller holds no iterator.
NoIter == [top |-> 0, stack |-> <<>>, past |-> <<>>]

\* -------------------------------------------------------- bt_iter_dfs_next
\* *fp, for fp = iter->stack + j.
FrameAt(it, j) == IF j \in DOMAIN it.stack THEN it.stack[j] ELSE it.past[j]
\* *fp = f: into the array, or into the memory behind it.
FrameStore(it, j, f) ==
  IF j \in DOMAIN it.stack
    THEN [it EXCEPT !.stack[j] = f]
    ELSE [it EXCEPT !.past = (j :> f) @@ it.past]

\* What a store behind the end of the array (undefined behaviour) does: the
\* process is killed, or the store lands in the memory that follows.
UBOutcomes == {"fault", "write"}

\* Mutant: fp-- without iter->top--.
iter_pop_keeptop(it, fp) == [it |-> it, fp |-> fp - 1]

\* iter->top--; fp--;
iter_pop(it, fp) == [it |-> [it EXCEPT !.top = it.top - 1], fp |-> fp - 1]

\* Mutant: the new frame starts at cursor 1.
iter_push_skip(it, fp, child) ==
  [it |-> [FrameStore(it, fp + 1, Frame(1, child)) EXCEPT !.top = it.top + 1],
   fp |-> fp + 1]

\* new_fp = fp + 1; iter->top++; new_fp->i = 0; new_fp->node = child;
iter_push(it, fp, child) ==
  [it |-> [FrameStore(it, fp + 1, Frame(0, child)) EXCEPT !.top = it.top + 1],
   fp |-> fp + 1]

\* fp->i++
iter_advance(it, fp) ==
  FrameStore(it, fp, Frame(FrameAt(it, fp).i + 1, FrameAt(it, fp).node))

\* One more pass of the loop body before the passes of r.
Pass(r) == [r EXCEPT !.steps = @ + 1]

\* The while (true) loop from the frame fp: the iterator afterwards, the
\* pointer returned, whether the process was killed instead, and the number
\* of passes of the loop body; ub is the outcome of a store behind the end of
\* the stack array.
RECURSIVE dfs_loop(_, _, _, _, _)
dfs_loop(h, it, fp, visited_child, ub) ==
  LET f == FrameAt(it, fp)
  IN IF f.node = NULL
       THEN [iter |-> it, ret |-> NullPtr, fault |-> FALSE, steps |-> 1]
     ELSE IF f.i > h[f.node].n
       THEN IF it.top = 1
              THEN [iter |-> it, ret |-> NullPtr, fault |-> FALSE, steps |-> 1]
            ELSE LET p == iter_pop(it, fp)
                 IN Pass(dfs_loop(h, p.it, p.fp, TRUE, ub))
     ELSE IF h[f.node].children[f.i] /= NULL /\ ~visited_child
       THEN IF (fp + 1) \notin DOMAIN it.stack /\ ub = "fault"
              THEN [iter |-> it, ret |-> NullPtr, fault |-> TRUE, steps |-> 1]
              ELSE LET p == iter_push(it, fp, h[f.node].children[f.i])
                   IN Pass(dfs_loop(h, p.it, p.fp, visited_child, ub))
     ELSE IF f.i < h[f.node].n
       THEN [iter |-> iter_advance(it, fp), ret |-> ElemPtr(f.node, f.i),
             fault |-> FALSE, steps |-> 1]
     ELSE Pass(dfs_loop(h, iter_advance(it, fp), fp, visited_child, ub))

\* Mutant: an exhausted iterator starts over at the root.
bt_iter_dfs_next_restart(h, it, ub) ==
  LET r == dfs_loop(h, it, it.top - 1, FALSE, ub)
  IN IF r.ret = NullPtr /\ ~r.fault
       THEN [iter |-> bt_iter_dfs_mk(it.stack[0].node, Cardinality(DOMAIN it.stack)),
             ret |-> NullPtr, fault |-> FALSE, steps |-> r.steps]
       ELSE r

bt_iter_dfs_next(h, it, ub) == dfs_loop(h, it, it.top - 1, FALSE, ub)

\* ------------------------------------------------------------------ state
\* bt_mk: no root, and the rest of the struct zero; in a build with the
\* iterator stack size N.
InitBuild(N) ==
  /\ stack_size = N
  /\ factor \in Factors
  /\ order \in {"asc", "desc", "any", "example"}
  /\ order = "example" => factor = BT_FACTOR
  /\ root = NULL
  /\ size = 0
  /\ nodes = <<>>
  /\ iter = NoIter
  /\ last = [op |-> "mk"]
  /\ live = [e \in Elems |-> 0]
  /\ model = [k \in AllKeys |-> 0]
  /\ yielded = <<>>

Init == InitBuild(BT_ITER_STACK_SIZE)

\* The tree is in use: no call has ended in a fault, and bt_free was not
\* called.
Alive == last.op \notin {"fault", "free"}

\* How often x occurs in the sequence q.
Count(q, x) == Cardinality({i \in DOMAIN q : q[i] = x})

\* The counts l after the release of each element of the sequence q.
RECURSIVE Release(_, _)
Release(l, q) ==
  IF q = <<>> THEN l
  ELSE Release([l EXCEPT ![Head(q)] = @ - 1], Tail(q))

\* The keys the caller may insert next: those stored, and the absent ones
\* its order allows.
Absent == {k \in Keys : model[k] = 0}
Stored == {k \in AllKeys : model[k] /= 0}
MayInsert(k) ==
  \/ model[k] /= 0
  \/ /\ order = "asc"
     /\ k \in Keys
     /\ \A j \in Absent : k <= j
  \/ /\ order = "desc"
     /\ k \in Keys
     /\ \A j \in Absent : k >= j
  \/ /\ order = "any"
     /\ k <= MaxAny
  \/ /\ order = "example"
     /\ Cardinality(Stored) < Len(Example)
     /\ k = Example[Cardinality(Stored) + 1]

\* The caller keeps to the first value: it stores a new key under it, and
\* when it has overwritten a key with another value, its next calls are
\* inserts of that key, until the first value is back.
Dirty == {k \in AllKeys : model[k] > 1}

\* bt_insert(&bt, e, wp ? &prev : NULL). The caller's iterator, if it held
\* one, is over: it walks the node graph that the insertion changes.
\* last.allocs counts the nodes the call allocated.
Insert(e, wp) ==
  /\ Alive
  /\ MayInsert(e.key)
  /\ Dirty \subseteq {e.key}
  /\ (model[e.key] = 0 \/ order = "example") => e.val = 1
  /\ \E r \in {bt_insert(nodes, root, e, wp, Unwritten, factor)} :
     /\ nodes' = r.h
     /\ root' = r.root
     /\ last' = [op |-> "insert", key |-> e.key, val |-> e.val, wp |-> wp,
                 ret |-> r.replaced, prev |-> r.prev,
                 allocs |-> Len(r.h) - Len(nodes),
                 hooked |-> r.hooked, trace |-> r.trace, probes |-> r.probes]
     /\ live' = Release([live EXCEPT ![e] = @ + 1],
                        r.hooked \o (IF r.prev = Unwritten THEN <<>> ELSE <<r.prev>>))
     /\ model' = [model EXCEPT ![e.key] = e.val]
     /\ iter' = NoIter
     /\ yielded' = <<>>
     /\ UNCHANGED <<factor, order, stack_size, size>>

\* bt_lookup_node(&bt, &probe, &node); only the key of the probe is compared.
\* The caller looks keys up between iterations, not during one.
Lookup(k) ==
  /\ Alive
  /\ Dirty = {}
  /\ k \in Keys \/ order = "example"
  /\ \E r \in {bt_lookup_node(nodes, root, Elem(k, 0))} :
     /\ last' = [op |-> "lookup", key |-> k, ret |-> r.ret, node |-> r.node,
                 searches |-> r.searches, probes |-> r.probes]
     /\ iter' = NoIter
     /\ yielded' = <<>>
     /\ UNCHANGED <<factor, order, stack_size, root, size, nodes, live, model>>

\* iter = bt_iter_dfs_mk(&bt)
IterMk ==
  /\ Alive
  /\ Dirty = {}
  /\ iter' = bt_iter_dfs_mk(root, stack_size)
  /\ yielded' = <<>>
  /\ last' = [op |-> "iter_mk"]
  /\ UNCHANGED <<factor, order, stack_size, root, size, nodes, live, model>>

\* bt_iter_dfs_next(&iter); last.done: this call or an earlier one on the
\* iterator returned NULL. A call that the system kills ends the process.
IterNext ==
  /\ Alive
  /\ iter.top > 0
  /\ \E ub \in UBOutcomes : \E r \in {bt_iter_dfs_next(nodes, iter, ub)} :
        /\ iter' = r.iter
        /\ last' = IF r.fault THEN [op |-> "fault"]
                   ELSE [op |-> "iter_next", ret |-> r.ret,
                         done |-> (last.op = "iter_next" /\ last.done)
                                    \/ r.ret = NullPtr,
                         steps |-> r.steps]
        /\ yielded' = IF r.ret = NullPtr THEN yielded
                      ELSE Append(yielded, Deref(nodes, r.ret))
  /\ UNCHANGED <<factor, order, stack_size, root, size, nodes, live, model>>

\* bt_free(bt): the last call on the tree. The struct is passed by value,
\* so the caller's root is left as it was.
Free ==
  /\ Alive
  /\ Dirty = {}
  /\ \E r \in {bt_free(nodes, root)} :
        /\ last' = [op |-> "free", hooked |-> r.hooked, freed |-> r.freed]
        /\ live' = Release(live, r.hooked)
  /\ iter' = NoIter
  /\ yielded' = <<>>
  /\ UNCHANGED <<factor, order, stack_size, root, size, nodes, model>>

Next ==
  \/ \E e \in Elems, wp \in BOOLEAN : Insert(e, wp)
  \/ \E k \in AllKeys : Lookup(k)
  \/ IterMk
  \/ IterNext
  \/ Free

Spec == Init /\ [][Next]_vars

\* The same program built with the small iterator stack.
InitSmallStack == InitBuild(SmallStack)
SpecSmallStack == InitSmallStack /\ [][Next]_vars

\* A leaf that holds the keys of S in increasing order, in a zeroed node.
NodeOf(S, F) ==
  [ZeroNode(F) EXCEPT
     !.n = Cardinality(S),
     !.elems = [j \in ElemIdx(F) |->
                  IF j < Cardinality(S)
                    THEN Elem(CHOOSE x \in S : Cardinality({y \in S : y < x}) = j, 1)
                    ELSE ZeroElem]]

\* bt_node_bsearch(&node, &probe) on a node of the caller's making: any
\* non-empty set of keys that fits a node, the overflow slot included.
Search(S, k) ==
  /\ S /= {}
  /\ Cardinality(S) <= 2 * factor + 1
  /\ last' = [op |-> "bsearch", node |-> NodeOf(S, factor), key |-> k,
              ret |-> bt_node_bsearch(NodeOf(S, factor), Elem(k, 0))]
  /\ UNCHANGED <<factor, order, stack_size, root, size, nodes, iter, live, model,
                 yielded>>

\* The caller makes one search.
NextSearch ==
  /\ last.op = "mk"
  /\ \E S \in SUBSET Keys, k \in Keys : Search(S, k)

\* bt_node_bsearch alone, on every node and key within the bounds.
InitSearch == Init /\ order = "any"
SpecSearch == InitSearch /\ [][NextSearch]_vars

\* ------------------------------------------------------- reading the tree
\* The occupied slots of a node.
KeyIdx(nd) == 0..(nd.n - 1)
LiveIdx(nd) == 0..nd.n
\* if (child->children[0]): a node is a leaf when its first child is absent.
IsLeaf(nd) == nd.children[0] = NULL

\* The nodes of the subtree of nd.
RECURSIVE Reach(_, _)
Reach(h, nd) ==
  IF nd = NULL THEN {}
  ELSE {nd} \cup UNION {Reach(h, h[nd].children[i]) : i \in LiveIdx(h[nd])}

\* The elements stored in the subtree of nd, one entry per occupied slot.
Slots(h, nd) == {s \in Reach(h, nd) \X ElemIdx(factor) : s[2] < h[s[1]].n}
\* The elements, and the keys, in the slots S of the heap h.
ElemsAt(h, S) == {h[s[1]].elems[s[2]] : s \in S}
KeysAt(h, S) == {h[s[1]].elems[s[2]].key : s \in S}
StoredElems(h, nd) == ElemsAt(h, Slots(h, nd))
SubKeys(h, nd) == KeysAt(h, Slots(h, nd))

\* The number of nodes on the paths from nd down to an absent child.
RECURSIVE Depths(_, _)
Depths(h, nd) ==
  IF nd = NULL THEN {0}
  ELSE {d + 1 : d \in UNION {Depths(h, h[nd].children[i]) : i \in LiveIdx(h[nd])}}

Height == IF root = NULL THEN 0 ELSE CHOOSE d \in Depths(nodes, root) :
                                       \A e \in Depths(nodes, root) : e <= d

\* The last call was an insert that allocated k nodes.
Inserted(k) == last.op = "insert" /\ last.allocs = k
\* ... and split a node that has children without splitting the root: the
\* split of a leaf below it overflowed it (two allocations, no new root).
InteriorSplit == Inserted(2) /\ root < Len(nodes) - 1
\* ... and split a root that has children: the new root is allocated before
\* the sibling of the old one.
InternalRootSplit == Inserted(3) /\ root = Len(nodes) - 1

\* ----------------------------------------------------------------- claims

\* C1: after any sequence of inserts, in every node the keys elems[0..n-1]
\* are strictly increasing, and for every i < n all keys in the subtree of
\* children[i] are less than elems[i] and all keys in the subtree of
\* children[i+1] are greater than elems[i].
C1_Ordered ==
  \A x \in Reach(nodes, root) :
    LET nd == nodes[x]
    IN /\ \A i, j \in KeyIdx(nd) : i < j => nd.elems[i].key < nd.elems[j].key
       /\ \A i \in KeyIdx(nd) :
            /\ \A k \in SubKeys(nodes, nd.children[i]) : k < nd.elems[i].key
            /\ \A k \in SubKeys(nodes, nd.children[i + 1]) : k > nd.elems[i].key

\* An insert has just split a leaf and, above it, a node with children, in a
\* tree of three levels.
C1_Witness == InteriorSplit /\ Height = 3

\* C2: after any sequence of inserts, every leaf is at the same depth from
\* the root.
C2_LeavesLevel ==
  root /= NULL => Cardinality(Depths(nodes, root)) = 1

\* An insert has just split a root that has children: the tree grew from two
\* levels to three.
C2_Witness == InternalRootSplit /\ Height = 3

\* C3: between top-level operations every non-root node holds between factor
\* and 2*factor keys and the root holds at most 2*factor keys.
C3_KeyCounts ==
  \A x \in Reach(nodes, root) :
    /\ nodes[x].n <= 2 * factor
    /\ x /= root => nodes[x].n >= factor

\* An insert has just split a node: the two halves hold factor keys each.
C3_Witness ==
  /\ Inserted(1)
  /\ \E x \in Reach(nodes, root) \ {root} :
       nodes[x].n = factor /\ nodes[Len(nodes)].n = factor /\ x /= Len(nodes)
  /\ \E x \in Reach(nodes, root) \ {root} : nodes[x].n = 2 * factor

\* The stored keys in ascending order.
SortedKeys ==
  LET S == SubKeys(nodes, root)
  IN [i \in 1..Cardinality(S) |->
        CHOOSE k \in S : Cardinality({j \in S : j < k}) = i - 1]
\* The node that holds key k.
Holder(k) == bt_lookup_node(nodes, root, Elem(k, 0)).ret.node
\* A node with children that is not the root.
Interior(x) == x /= NULL /\ x /= root /\ ~IsLeaf(nodes[x])
\* The last call was bt_iter_dfs_next and it, or one before it, returned NULL.
Exhausted == last.op = "iter_next" /\ last.done

\* C4: lookup agrees with the abstract map kept by the same inserts: for a
\* key that was inserted it returns a pointer to a stored element equal to
\* the most recently inserted one, for any other key NULL; and so did the
\* last call of bt_lookup_node.
C4_LookupRefines ==
  /\ \A k \in AllKeys :
       LET p == bt_lookup(nodes, root, Elem(k, 0))
       IN IF model[k] = 0 THEN p = NullPtr
          ELSE /\ p /= NullPtr
               /\ p.node \in Reach(nodes, root)
               /\ p.idx < nodes[p.node].n
               /\ Deref(nodes, p) = Elem(k, model[k])
  /\ last.op = "lookup" =>
       IF model[last.key] = 0 THEN last.ret = NullPtr
       ELSE /\ last.ret /= NullPtr
            /\ Deref(nodes, last.ret) = Elem(last.key, model[last.key])

\* A lookup has just found its key in a node between the root and the
\* leaves, and another key was never inserted.
C4_Witness ==
  /\ last.op = "lookup" /\ last.ret /= NullPtr
  /\ Interior(last.ret.node)
  /\ \E k \in Keys : model[k] = 0

\* C5: bt_insert of an element whose key is stored returns true, overwrites
\* the stored element with the new one, writes the element stored before to
\* *prev when prev is not NULL, and leaves the stored keys and their number
\* unchanged: the occupied slots are the same ones, the slot that held the
\* old element holds the new one, and every other slot holds what it held.
C5_Replace ==
  [][(last'.op = "insert" /\ model[last'.key] /= 0) =>
       \A S \in {Slots(nodes, root)} :
         LET old == Elem(last'.key, model[last'.key])
             new == Elem(last'.key, last'.val)
         IN /\ last'.ret = TRUE
            /\ Slots(nodes', root') = S
            /\ \E s \in S : nodes[s[1]].elems[s[2]] = old
            /\ \A s \in S :
                 nodes'[s[1]].elems[s[2]] =
                   IF nodes[s[1]].elems[s[2]] = old THEN new
                   ELSE nodes[s[1]].elems[s[2]]
            /\ last'.wp => last'.prev = old
    ]_vars

\* An insert with a prev pointer has just replaced, in a node between the
\* root and the leaves, an element by one of another value.
C5_Witness ==
  /\ last.op = "insert" /\ last.ret /\ last.wp
  /\ last.prev.key = last.key /\ last.prev.val /= last.val
  /\ Interior(Holder(last.key))

\* C6: bt_insert of an element whose key is not stored returns false, does
\* not write *prev, and afterwards the stored keys are the old ones and the
\* new one.
C6_InsertNew ==
  [][(last'.op = "insert" /\ model[last'.key] = 0) =>
       /\ last'.ret = FALSE
       /\ last'.prev = Unwritten
       /\ SubKeys(nodes', root') = SubKeys(nodes, root) \cup {last'.key}
       /\ StoredElems(nodes', root') =
            StoredElems(nodes, root) \cup {Elem(last'.key, last'.val)}
       /\ Cardinality(Slots(nodes', root')) = Cardinality(Slots(nodes, root)) + 1
    ]_vars

\* An insert of a new key, with a prev pointer, has just split a leaf, the
\* root above it, and made a new root.
C6_Witness == InternalRootSplit /\ last.wp /\ ~last.ret

\* C7: the elements the iterator has returned are the first stored elements
\* in ascending key order, each once, and all of them when it returns NULL.
C7_InOrder ==
  iter.top > 0 =>
    /\ Len(yielded) <= Len(SortedKeys)
    /\ \A i \in 1..Len(yielded) :
         yielded[i] = Elem(SortedKeys[i], model[SortedKeys[i]])
    /\ Exhausted =>
         /\ Len(yielded) = Cardinality(Slots(nodes, root))
         /\ [i \in 1..Len(yielded) |-> yielded[i].key] = SortedKeys

\* The iterator has returned NULL over a tree of three levels.
C7_Witness == Exhausted /\ Height = 3 /\ Len(yielded) >= 7

\* C8 (as claimed): when the iterator returns NULL it has returned as many
\* elements as the size field of the tree says.
C8_SizeIsCount ==
  (iter.top > 0 /\ Exhausted) => Len(yielded) = size

\* C9: once bt_iter_dfs_next has returned NULL, the call before the state
\* returned NULL, the next call returns NULL and leaves the iterator as it
\* is, and the bottom frame is on the stack.
C9_StaysExhausted ==
  (iter.top > 0 /\ Exhausted) =>
    /\ last.ret = NullPtr
    /\ iter.top >= 1
    /\ \A ub \in UBOutcomes :
         /\ bt_iter_dfs_next(nodes, iter, ub).ret = NullPtr
         /\ bt_iter_dfs_next(nodes, iter, ub).iter = iter
         /\ ~bt_iter_dfs_next(nodes, iter, ub).fault

\* The iterator has returned NULL after popping back to the bottom frame of
\* a tree of three levels.
C9_Witness == Exhausted /\ Height = 3 /\ iter.top = 1 /\ last.ret = NullPtr

\* C10: inserting a key/value pair that is stored leaves the node graph as
\* it is: every node's key count, keys and child links, the root, and no
\* node is allocated.
C10_Idempotent ==
  [][(last'.op = "insert" /\ model[last'.key] = last'.val) =>
       /\ nodes' = nodes
       /\ root' = root
       /\ last'.allocs = 0
    ]_vars

\* The pair inserted last was stored already (it came back through *prev),
\* in a full node between the root and the leaves.
C10_Witness ==
  /\ last.op = "insert" /\ last.ret /\ last.wp
  /\ last.prev = Elem(last.key, last.val)
  /\ Interior(Holder(last.key))
  /\ nodes[Holder(last.key)].n = 2 * factor

\* The keys of a node, in slot order.
NodeKeys(x) == [i \in 1..nodes[x].n |-> nodes[x].elems[i - 1].key]
\* The keys the iterator has returned.
YieldedKeys == [i \in 1..Len(yielded) |-> yielded[i].key]

\* C11: from an empty tree, no node is split before 2*factor+1 distinct keys
\* are stored, and with 2*factor+1 keys the tree is a root holding the median
\* alone over two leaves of factor keys each. In the worked example (factor
\* 2; inserts 10, 20, 5, 6, 12, 30, 7, 17) the fifth insert leaves root [10]
\* over [5,6] and [12,20], lookup(6) then returns 6, the traversal of the
\* final tree yields 5, 6, 7, 10, 12, 17, 20, 30, and re-inserting 10 returns
\* true with 10 in *prev.
C11_FirstSplit ==
  LET cnt == Cardinality(SubKeys(nodes, root))
  IN /\ cnt <= 2 * factor => Len(nodes) <= 1
     /\ cnt = 2 * factor + 1 =>
          /\ Len(nodes) = 3
          /\ nodes[root].n = 1
          /\ nodes[root].elems[0].key = SortedKeys[factor + 1]
          /\ \A i \in 0..1 :
               LET c == nodes[root].children[i]
               IN c /= NULL /\ nodes[c].n = factor /\ IsLeaf(nodes[c])
     /\ order = "example" =>
          /\ cnt = 5 =>
               /\ NodeKeys(root) = <<10>>
               /\ NodeKeys(nodes[root].children[0]) = <<5, 6>>
               /\ NodeKeys(nodes[root].children[1]) = <<12, 20>>
               /\ (last.op = "lookup" /\ last.key = 6) =>
                    last.ret /= NullPtr /\ Deref(nodes, last.ret).key = 6
          /\ cnt = Len(Example) =>
               /\ (iter.top > 0 /\ Exhausted) =>
                    YieldedKeys = <<5, 6, 7, 10, 12, 17, 20, 30>>
               /\ (last.op = "insert" /\ last.key = 10) =>
                    /\ last.ret = TRUE
                    /\ last.wp => last.prev.key = 10

\* In the worked example, 10 has just been re-inserted, with a prev pointer,
\* into the final tree of eight keys.
C11_Witness ==
  /\ order = "example" /\ Cardinality(Stored) = Len(Example)
  /\ last.op = "insert" /\ last.key = 10 /\ last.ret /\ last.wp

\* C12: on a tree without a root, bt_lookup_node returns NULL without a call
\* of bt_node_bsearch, and bt_insert returns false and leaves one node, the
\* root: a leaf of height 1 with n = 1 that holds the inserted element and
\* has no child.
C12_EmptyTree ==
  [][root = NULL =>
       /\ last'.op = "lookup" =>
            /\ last'.ret = NullPtr
            /\ last'.searches = 0
       /\ last'.op = "insert" =>
            /\ last'.ret = FALSE
            /\ Len(nodes') = 1
            /\ root' = 1
            /\ nodes'[root'].n = 1
            /\ nodes'[root'].elems[0] = Elem(last'.key, last'.val)
            /\ \A i \in ChildIdx(factor) : nodes'[root'].children[i] = NULL
            /\ Height' = 1
    ]_vars

\* The first insert, into the tree without a root, has just returned.
C12_Witness ==
  /\ last.op = "insert" /\ last.allocs = 1 /\ Cardinality(Stored) = 1
  /\ Len(nodes) = 1 /\ root = 1

\* C13 (as claimed): when bt_lookup_node returns an element pointer, the
\* node it reports is a leaf.
C13_ReportsLeaf ==
  (last.op = "lookup" /\ last.ret /= NullPtr) =>
    /\ last.node /= NULL
    /\ IsLeaf(nodes[last.node])

\* C14 (as claimed): over a tree taller than the iterator's stack, a call of
\* bt_iter_dfs_next ends in a fault: it never returns, no frame is stored
\* behind the end of the stack array, and no element is handed out.
C14_FaultsOnOverflow ==
  (iter.top > 0 /\ Height > stack_size) =>
    /\ last.op /= "iter_next"
    /\ iter.top <= stack_size
    /\ DOMAIN iter.past = {}
    /\ yielded = <<>>

\* C15: every element handed to bt_insert is released once: while the tree
\* is in use each element was handed in once more than it was released if it
\* is stored (in one slot) and as often otherwise; a replacing insert hands
\* the old element to *prev, or to BT_ELEM_FREE when prev is NULL, and no
\* other insert calls the hook; bt_free applies the hook once to each stored
\* element, after which nothing is owed, and frees every node allocated
\* once.
C15_ReleasedOnce ==
  /\ Alive =>
       /\ \A e \in Elems :
            live[e] = IF e \in StoredElems(nodes, root) THEN 1 ELSE 0
       /\ Cardinality(Slots(nodes, root)) = Cardinality(StoredElems(nodes, root))
  /\ last.op = "insert" =>
       IF last.ret
         THEN IF last.wp
                THEN last.hooked = <<>> /\ last.prev.key = last.key
                ELSE /\ Len(last.hooked) = 1
                     /\ last.hooked[1].key = last.key
                     /\ last.prev = Unwritten
         ELSE last.hooked = <<>> /\ last.prev = Unwritten
  /\ last.op = "free" =>
       /\ \A e \in Elems :
            /\ live[e] = 0
            /\ Count(last.hooked, e) =
                 IF e \in StoredElems(nodes, root) THEN 1 ELSE 0
       /\ Len(last.freed) = Len(nodes)
       /\ \A x \in 1..Len(nodes) : Count(last.freed, x) = 1

\* bt_free has just torn down a tree of three levels.
C15_Witness == last.op = "free" /\ Height = 3 /\ Len(last.freed) >= 7

\* C16 (as claimed): bt_lookup_node, bt_iter_dfs_mk and bt_iter_dfs_next
\* leave the root and every node as they were, and bt_iter_dfs_next stores
\* nowhere but in the iterator: nothing behind its stack array.
C16_ReadOnly ==
  [][last'.op \in {"lookup", "iter_mk", "iter_next"} =>
       /\ root' = root
       /\ nodes' = nodes
       /\ last'.op = "iter_next" =>
            /\ DOMAIN iter'.stack = DOMAIN iter.stack
            /\ iter'.past = iter.past
    ]_vars

\* The stores of the last call, if it was bt_insert, and among them the
\* calls of bt_split_node.
Trace == IF last.op = "insert" THEN last.trace ELSE <<>>
SplitSteps == {i \in DOMAIN Trace : Trace[i].step = "split"}
\* The child that the split of step t is about.
SplitChild(t) == t.before[t.node].children[t.idx]

\* C17: a call bt_split_node(parent, idx) on a child of 2*factor+1 keys
\* returns the child's key at index factor; afterwards the child keeps its
\* keys [0, factor-1], the new sibling, at parent.children[idx+1], holds the
\* keys formerly at [factor+1, 2*factor] and, if the child has children, the
\* child links formerly at [factor+1, 2*factor+1], both have n = factor, the
\* parent's children formerly at idx+1..n are one slot to the right in the
\* same order, and parent.elems and parent.n are as before.
C17_Split ==
  \A s \in SplitSteps :
    LET t == Trace[s]
        pb == t.before[t.node]
        pa == t.after[t.node]
        child == SplitChild(t)
        cb == t.before[child]
        ca == t.after[child]
        sib == pa.children[t.idx + 1]
    IN cb.n = 2 * factor + 1 =>
         /\ t.elem = cb.elems[factor]
         /\ ca.n = factor
         /\ \A j \in 0..(factor - 1) : ca.elems[j] = cb.elems[j]
         /\ sib \in DOMAIN t.after /\ sib \notin DOMAIN t.before
         /\ t.after[sib].n = factor
         /\ \A j \in 0..(factor - 1) : t.after[sib].elems[j] = cb.elems[j + factor + 1]
         /\ ~IsLeaf(cb) =>
              \A j \in 0..factor : t.after[sib].children[j] = cb.children[j + factor + 1]
         /\ \A j \in 0..t.idx : pa.children[j] = pb.children[j]
         /\ \A j \in (t.idx + 1)..pb.n : pa.children[j + 1] = pb.children[j]
         /\ pa.elems = pb.elems
         /\ pa.n = pb.n

\* The last insert split a child that has children and stands left of
\* another child of its parent, which was moved.
C17_Witness ==
  \E s \in SplitSteps :
    LET t == Trace[s]
    IN /\ ~IsLeaf(t.before[SplitChild(t)])
       /\ t.idx < t.before[t.node].n
       /\ t.before[t.node].children[t.idx + 1] /= NULL

\* C18: during bt_insert no node ever holds more than 2*factor+1 keys, so
\* never more than 2*factor+2 live child links; every shift of elements or
\* of children starts from a node of at most 2*factor keys, so that it stays
\* within elems[2*factor+1] and children[2*factor+2]; and bt_split_node is
\* called only on a child of exactly 2*factor+1 keys.
C18_OverflowByOne ==
  \A s \in DOMAIN Trace :
    LET t == Trace[s]
    IN /\ \A x \in DOMAIN t.before : t.before[x].n <= 2 * factor + 1
       /\ \A x \in DOMAIN t.after : t.after[x].n <= 2 * factor + 1
       /\ t.step \in {"insert", "split"} => t.before[t.node].n <= 2 * factor
       /\ t.step \in {"insert", "split"} => t.idx <= t.before[t.node].n
       /\ t.step = "split" => t.before[SplitChild(t)].n = 2 * factor + 1

\* The last insert overflowed a leaf, whose split overflowed its parent,
\* whose split filled a root over it.
C18_Witness ==
  /\ Cardinality(SplitSteps) = 2
  /\ root = last.trace[Len(last.trace)].node
  /\ last.trace[Len(last.trace)].step = "insert"
  /\ nodes[root].n = 2 * factor

\* The populated child slots of a node, of all its slots.
Populated(nd) == {i \in DOMAIN nd.children : nd.children[i] /= NULL}

\* C19 (as claimed): every node with children has exactly n+1 populated
\* child slots of its 2*factor+2, and every leaf none.
C19_PopulatedSlots ==
  \A x \in Reach(nodes, root) :
    Cardinality(Populated(nodes[x])) = IF IsLeaf(nodes[x]) THEN 0 ELSE nodes[x].n + 1

\* C19 (amended): every node with children has its n+1 child slots 0..n
\* populated, every leaf has no populated child slot, and a populated slot
\* beyond index n holds a link that was moved to a sibling: the child it
\* names is reached through another node.
C19_LiveSlots ==
  \A x \in Reach(nodes, root) :
    /\ IsLeaf(nodes[x]) => Populated(nodes[x]) = {}
    /\ ~IsLeaf(nodes[x]) => LiveIdx(nodes[x]) \subseteq Populated(nodes[x])
    /\ \A i \in Populated(nodes[x]) \ LiveIdx(nodes[x]) :
         \E y \in Reach(nodes, root) \ {x} : \E j \in LiveIdx(nodes[y]) :
           nodes[y].children[j] = nodes[x].children[i]

\* A node with children was split and still has the links it gave to its
\* sibling in the slots beyond n.
C19_Witness ==
  \E x \in Reach(nodes, root) :
    /\ ~IsLeaf(nodes[x])
    /\ Populated(nodes[x]) \ LiveIdx(nodes[x]) /= {}


\* C20: bt_insert raises the height by one when the tree had no root or the
\* root held 2*factor+1 keys after the insertion below it, and leaves it as
\* it is otherwise: when it replaces, and when it splits below the root
\* only; no call lowers the height.
C20_HeightStep ==
  [][\A before \in {Height} : \A after \in {Height'} :
       /\ after >= before
       /\ last'.op /= "insert" => after = before
       /\ last'.op = "insert" =>
            LET grows == root = NULL \/
                         \E s \in DOMAIN last'.trace :
                           LET t == last'.trace[s]
                           IN /\ t.step = "split"
                              /\ t.before[t.node].children[t.idx] = root
                              /\ t.before[root].n = 2 * factor + 1
            IN /\ after = IF grows THEN before + 1 ELSE before
               /\ last'.ret => after = before
               /\ root' = root => after = before
               /\ grows <=> root' /= root
    ]_vars

\* The last insert split a leaf and the node above it and left the root,
\* and so the height of three, as they were.
C20_Witness ==
  /\ Cardinality(SplitSteps) = 2
  /\ \A s \in SplitSteps : SplitChild(Trace[s]) /= root
  /\ root \in DOMAIN last.trace[1].before
  /\ last.trace[1].before[root].n = nodes[root].n - 1
  /\ Height = 3

\* C21: on a node of n >= 1 strictly increasing keys bt_node_bsearch returns
\* the index of the slot that holds the key when the node holds it, and
\* otherwise -p - 1 for p the number of keys of the node less than the key:
\* -1 below all of them and -n - 1 above.
C21_SearchResult ==
  last.op = "bsearch" =>
    LET nd == last.node
        hit == {i \in KeyIdx(nd) : nd.elems[i].key = last.key}
        p == Cardinality({i \in KeyIdx(nd) : nd.elems[i].key < last.key})
    IN IF hit /= {} THEN last.ret \in hit ELSE last.ret = (-p) - 1

\* The search of an overflowed node of the default factor for a key above
\* all of its keys has returned -n - 1.
C21_Witness ==
  /\ last.op = "bsearch" /\ factor = BT_FACTOR
  /\ last.node.n = 2 * BT_FACTOR + 1
  /\ last.ret = (-last.node.n) - 1

\* The calls of bt_node_bsearch of the last call, if it was bt_insert or
\* bt_lookup_node.
Probes == IF last.op \in {"insert", "lookup"} THEN last.probes ELSE <<>>

\* C22: from an empty tree on, bt_insert and bt_lookup call bt_node_bsearch
\* on nodes of at least one key only, every node reached from the root has
\* at least one key, and where bt_node_bsearch asserts left == right (the
\* key was not found) they are equal.
C22_SearchSafe ==
  /\ \A x \in Reach(nodes, root) : nodes[x].n >= 1
  /\ \A i \in DOMAIN Probes :
       /\ Probes[i].n >= 1
       /\ Probes[i].cmp /= 0 => Probes[i].left = Probes[i].right

\* The last call searched the root, a node below it and a leaf, and passed
\* the assertion in each: the key was in none of them.
C22_Witness ==
  /\ Len(Probes) = 3
  /\ \A i \in DOMAIN Probes : Probes[i].cmp /= 0

\* The frames of the iterator in use, bottom first.
Frames == [j \in 0..(iter.top - 1) |-> FrameAt(iter, j)]
\* Frame 0 holds the root, each further frame the child at the cursor of the
\* frame below it, and no cursor is beyond n + 1.
StackIsPath ==
  /\ Frames[0].node = root
  /\ \A j \in 1..(iter.top - 1) :
       Frames[j].node = nodes[Frames[j - 1].node].children[Frames[j - 1].i]
  /\ \A j \in 0..(iter.top - 1) :
       Frames[j].node /= NULL => Frames[j].i <= nodes[Frames[j].node].n + 1

\* C23 (as claimed): between calls of bt_iter_dfs_next the iterator's stack
\* is a path from the root, every cursor is at most n + 1 of its node, and
\* 1 <= top <= height of the tree.
C23_StackWithinHeight ==
  (iter.top > 0 /\ Alive) =>
    /\ StackIsPath
    /\ 1 <= iter.top
    /\ iter.top <= Height

\* C23 (amended): between calls of bt_iter_dfs_next the iterator's stack is
\* a path from the root, every cursor is at most n + 1 of its node, and
\* 1 <= top <= height of the tree, except that over a tree without a root,
\* of height 0, the stack holds one frame, that of the absent root.
C23_StackIsPath ==
  (iter.top > 0 /\ Alive) =>
    /\ StackIsPath
    /\ 1 <= iter.top
    /\ iter.top <= IF root = NULL THEN 1 ELSE Height

\* The iterator stands in a leaf of a tree of three levels, after it came
\* back from another one.
C23_Witness ==
  /\ iter.top = 3 /\ Height = 3 /\ Alive
  /\ Frames[0].i + Frames[1].i >= 1
  /\ Len(yielded) >= 3

====
